---- MODULE Spec2Model ----
(***************************************************************************)
(* Model of extensions/serial-input-python/main.py: the reconnecting       *)
(* serial reader thread (_reader_loop), the PM100 line decoder             *)
(* (parse_pm100_line), the thread-to-asyncio broadcast bridge (wsClient,   *)
(* sender) and the command dispatcher (handle_command, handle_message,     *)
(* main).                                                                  *)
(*                                                                         *)
(* Conventions                                                             *)
(*  - Python None of an Optional field is the empty sequence <<>>, a       *)
(*    present value v is <<v>>; last_error is a string, None == "null".    *)
(*  - A line of bytes is the sequence of its whitespace-separated tokens   *)
(*    (what raw.decode().strip().split() yields), a token a sequence of    *)
(*    one-character strings.                                               *)
(*  - backoff_seconds is kept in units of 1/256 s.  Every value the code   *)
(*    can produce (1.5^k for k <= 8, and 30.0) is a multiple of 1/256 and  *)
(*    an exact binary float, so the integer arithmetic is exact.           *)
(*  - The reader thread advances one source statement per step; a command  *)
(*    handler runs on the event-loop thread and is one step.               *)
(***************************************************************************)
EXTENDS Integers, Sequences, FiniteSets, TLC

(* ------------------------------ bounds -------------------------------- *)
MaxThreads == 2      \* reader threads ever created in a run
MaxConn == 2         \* websocket connections (stdin init lines) in a run
MaxQueue == 2        \* events in flight between publish and ws.send
MaxFails == 10       \* consecutive failures the transport produces
MaxLines == 3        \* lines delivered while the transport stays open
MaxWords == 2        \* tokens of a line made of multi-character tokens
MaxNibbles == 8      \* tokens of a line made of single-character tokens

(* ------------------------- program constants -------------------------- *)
Floor == 256         \* backoff_seconds = 1.0, in 1/256 s
Ceiling == 7680      \* 30.0, in 1/256 s
DEFAULT_BAUDRATE == 57600

None == "null"
NoPortError == "No serial port configured"
LoopClosedError == "Event loop is closed"
OpenError == "could not open port"
ReadError == "device disconnected"

Min(a, b) == IF a <= b THEN a ELSE b

(* ------------------------------ decoder ------------------------------- *)
HexChars == {"0","1","2","3","4","5","6","7","8","9",
             "A","B","C","D","E","F","a","b","c","d","e","f"}

HexVal(c) ==
    CASE c = "0" -> 0  [] c = "1" -> 1  [] c = "2" -> 2  [] c = "3" -> 3
      [] c = "4" -> 4  [] c = "5" -> 5  [] c = "6" -> 6  [] c = "7" -> 7
      [] c = "8" -> 8  [] c = "9" -> 9
      [] c \in {"A","a"} -> 10 [] c \in {"B","b"} -> 11
      [] c \in {"C","c"} -> 12 [] c \in {"D","d"} -> 13
      [] c \in {"E","e"} -> 14 [] c \in {"F","f"} -> 15

RECURSIVE HexDigitsValue(_)
HexDigitsValue(ds) ==
    IF ds = <<>> THEN 0
    ELSE 16 * HexDigitsValue(SubSeq(ds, 1, Len(ds) - 1)) + HexVal(ds[Len(ds)])

\* int(token, 16) as Python parses it: an optional sign, an optional "0x" or
\* "0X" prefix (which one "_" may follow), then hex digits with single
\* underscores allowed between them; <<>> stands for ValueError, <<v>> for
\* the value.
IntBase16(token) ==
    LET signed   == token # <<>> /\ token[1] \in {"-", "+"}
        body     == IF signed THEN Tail(token) ELSE token
        prefixed == Len(body) >= 2 /\ body[1] = "0" /\ body[2] \in {"x", "X"}
        rest0    == IF prefixed THEN SubSeq(body, 3, Len(body)) ELSE body
        rest     == IF prefixed /\ rest0 # <<>> /\ rest0[1] = "_"
                    THEN Tail(rest0) ELSE rest0
        ok       == /\ rest # <<>>
                    /\ rest[1] \in HexChars
                    /\ rest[Len(rest)] \in HexChars
                    /\ \A i \in 1..Len(rest) : rest[i] \in HexChars \cup {"_"}
                    /\ \A i \in 1..(Len(rest) - 1) :
                          ~(rest[i] = "_" /\ rest[i + 1] = "_")
        digits   == SelectSeq(rest, LAMBDA c : c # "_")
    IN  IF ~ok THEN <<>>
        ELSE IF signed /\ token[1] = "-" THEN << 0 - HexDigitsValue(digits) >>
        ELSE << HexDigitsValue(digits) >>

\* a variant of the regrouping that joins each group last nibble first
Regroup_reversed(parts) ==
    [ i \in 1..(Len(parts) \div 4) |->
        parts[4*i] \o parts[4*i - 1] \o parts[4*i - 2] \o parts[4*i - 3] ]

\* lines 101-104: single-character tokens are regrouped four at a time
Regroup(parts) ==
    [ i \in 1..(Len(parts) \div 4) |->
        parts[4*i - 3] \o parts[4*i - 2] \o parts[4*i - 1] \o parts[4*i] ]

\* lines 111-114: a token longer than 4 characters keeps its last 4
Salvage(token) ==
    IF Len(token) > 4 THEN SubSeq(token, Len(token) - 3, Len(token)) ELSE token

\* parse_pm100_line: <<>> is None, otherwise << [values |-> f] >> with f the
\* map index -> word (key str(i) of the dict is the integer i here).
parse_pm100_line(line) ==
    IF line = <<>> THEN <<>>
    ELSE
      LET single == \A i \in 1..Len(line) : Len(line[i]) = 1
          parts  == IF single /\ Len(line) % 4 = 0 THEN Regroup(line) ELSE line
          vals   == [ i \in 1..Len(parts) |-> IntBase16(Salvage(parts[i])) ]
      IN  IF single /\ Len(line) % 4 # 0 THEN <<>>
          ELSE IF \E i \in 1..Len(parts) : Len(parts[i]) < 4 \/ vals[i] = <<>>
               THEN <<>>
          ELSE << [values |-> [ i \in 0..(Len(parts) - 1) |-> vals[i + 1][1] ]] >>

\* the lines the transport can deliver
Line_0068_00AF == << <<"0","0","6","8">>, <<"0","0","A","F">> >>
Line_garbage   == << <<"g","a","r","b","a","g","e">> >>
Line_0001_0002 == << <<"0","0","0","1">>, <<"0","0","0","2">> >>
Lines == { Line_0068_00AF, Line_garbage, Line_0001_0002 }

\* Tokens a line can hold: well-formed words, a word with a stray leading
\* character, a short token, and tokens that are not plain hex.
DecoderTokens ==
    { <<"0","0","6","8">>, <<"0","0","A","F">>, <<"f","f","F","F">>,
      <<"A","0","0","6","8">>, <<"0","6">>, <<"0","0","G","8">>,
      <<"g","a","r","b","a","g","e">>, <<"-","0","F","F">>,
      <<"0","x","1","F">>, <<"1","_","F","F">> }
Nibbles == { <<"0">>, <<"6">>, <<"8">> }

\* the line whose tokens are those of l, concatenated four at a time
Concat4(l) ==
    [ i \in 1..(Len(l) \div 4) |->
        l[4*i - 3] \o l[4*i - 2] \o l[4*i - 1] \o l[4*i] ]

TokenLines == UNION { [1..n -> DecoderTokens] : n \in 1..MaxWords }
NibbleLines == UNION { [1..n -> Nibbles] : n \in 1..MaxNibbles }
WordLines == { Concat4(l) : l \in { m \in NibbleLines : Len(m) % 4 = 0 } }
Line_kv_colon == << <<"t",":","2","3",".","5">> >>
Line_kv_comma == << <<"a",",","1","2","3","4">> >>
KeyValueLines == { Line_kv_colon, Line_kv_comma }
DecoderLines ==
    TokenLines \cup NibbleLines \cup WordLines \cup KeyValueLines \cup { <<>> }



(* ------------------------------- state -------------------------------- *)
VARIABLES
    state,          \* _state: the SerialState record (lines 43-64)
    stop_event,     \* _stop_event.is_set()
    serial_thread,  \* _serial_thread: 0 is None, else a thread id
    nthreads,       \* threads created so far
    pc,             \* per thread: the line of _reader_loop it is about to run
    bfn,            \* per thread: the connection whose broadcast_fn it was given
    parsed,         \* per thread: local variable parsed (with its timestamp)
    exc,            \* per thread: the exception bound by "except ... as exc"
    conn,           \* number of the current wsClient run (asyncio.run in main)
    wsState,        \* "stdin" | "connecting" | "attached" | "ended" |
                    \* "raising" (an exception leaves receiver) | "exited"
    calls,          \* callbacks handed to loop.call_soon_threadsafe, not yet run
    out_q,          \* out_q of the current wsClient run
    wire,           \* the last message ws.send wrote to the current connection
    env,            \* what the environment of this run can do (a Scenario)
    pubLog,         \* history: events published on the current channel ...
    sentLog,        \* ... and messages written to it, common prefix cancelled
    lastStart,      \* history: what the last start did, "none" after a stop
    lastPub,        \* history: the last event a reader passed to publish
    fails,          \* history: transport failures since the last successful open
    linesRead,      \* history: lines read since the transport was opened
    updLog          \* history: serial:update payloads published since then

vars == << state, stop_event, serial_thread, nthreads, pc, bfn, parsed, exc,
           conn, wsState, calls, out_q, wire, env, pubLog, sentLog, lastStart,
           lastPub, fails, linesRead, updLog >>

Threads == 1..MaxThreads
Timestamp == "now"       \* time.time(): one abstract instant

\* The runs explored: each bounds what the environment does in one run.
Scenario(threads, conns, queue, failures, lines) ==
    [ maxThreads |-> threads, maxConn |-> conns, maxQueue |-> queue,
      maxFails |-> failures, maxLines |-> lines ]
Scenarios ==
    { Scenario(1, 1, 1, MaxFails, 0),           \* a device that keeps failing
      Scenario(1, 1, 1, 1, MaxLines),           \* a device that streams lines
      Scenario(1, 1, MaxQueue, 1, 1),           \* a consumer that lags behind
      Scenario(MaxThreads, MaxConn, 1, 2, 0) }  \* restarts and reconnections

\* SerialState defaults, lines 45-51; DEFAULT_PORT is SERIAL_PORT or ""
SerialState(default_port) ==
    [ port |-> default_port, baudrate |-> DEFAULT_BAUDRATE, status |-> "idle",
      last_error |-> None, last_value |-> <<>>, last_seen |-> <<>>,
      backoff_seconds |-> Floor ]

\* round(x, 3) of x/256 seconds, in thousandths (ties to even, as Python does
\* for the exactly representable values the backoff takes)
Round3(x) ==
    LET n == x * 1000
        q == n \div 256
        r == n % 256
    IN  IF 2 * r > 256 \/ (2 * r = 256 /\ q % 2 = 1) THEN q + 1 ELSE q

\* SerialState.to_health, lines 53-62
to_health(s) ==
    [ port |-> s.port, baudrate |-> s.baudrate, status |-> s.status,
      lastError |-> s.last_error, lastValue |-> s.last_value,
      lastSeen |-> s.last_seen, backoffSeconds |-> Round3(s.backoff_seconds) ]

Dead == {"unborn", "done", "crashed", "killed"}
is_alive(t) == pc[t] \notin Dead
ReaderActive == \E t \in Threads : is_alive(t)

Init ==
    /\ state \in { SerialState(p) : p \in {"", "COM1"} }
    /\ stop_event = FALSE
    /\ serial_thread = 0
    /\ nthreads = 0
    /\ pc = [t \in Threads |-> "unborn"]
    /\ bfn = [t \in Threads |-> 0]
    /\ parsed = [t \in Threads |-> <<>>]
    /\ exc = [t \in Threads |-> None]
    /\ conn = 0
    /\ wsState = "stdin"
    /\ calls = <<>>
    /\ out_q = <<>>
    /\ wire = <<>>
    /\ env \in Scenarios
    /\ pubLog = <<>>
    /\ sentLog = <<>>
    /\ lastStart = "none"
    /\ lastPub = "none"
    /\ fails = 0
    /\ linesRead = <<>>
    /\ updLog = <<>>

sysVars == << stop_event, serial_thread, nthreads, conn, wsState, env >>
readerVars == << pc, bfn, parsed, exc >>
bridgeVars == << calls, out_q, wire, pubLog, sentLog >>
streamVars == << linesRead, updLog >>
histVars == << lastStart, lastPub, fails, linesRead, updLog >>

(* ------------------------- broadcast bridge --------------------------- *)
\* The event loop of wsClient run g is running: asyncio.run(wsClient(...)) of
\* line 285 has started it and has not yet returned (and closed it).
LoopOpen(g) ==
    g = conn /\ wsState \in {"connecting", "attached", "ended", "raising"}

\* the JSON message of lines 211-218 (the uuid and the access token are left
\* out: no two messages are compared by them)
Msg(event, data) ==
    [ method |-> "app.broadcast", data |-> [event |-> event, data |-> data] ]

\* cancel the common prefix of the two histories
RECURSIVE Cancel(_, _)
Cancel(pub, sent) ==
    IF pub # <<>> /\ sent # <<>> /\ Head(pub) = Head(sent)
    THEN Cancel(Tail(pub), Tail(sent))
    ELSE << pub, sent >>

\* loop.call_soon_threadsafe(out_q.put_nowait, msg) on an open loop.  Once
\* the connection has ended (receiver returned, send_task cancelled, line
\* 231) nothing consumes the callback any more: it is not retained.
call_soon_threadsafe(m) ==
    IF wsState \in {"connecting", "attached"}
    THEN /\ Len(calls) + Len(out_q) < env.maxQueue
         /\ calls' = Append(calls, m)
         /\ pubLog' = Append(pubLog, m)
         /\ UNCHANGED << out_q, wire, sentLog >>
    ELSE UNCHANGED bridgeVars

\* a queue that hands out the newest message first
put_nowait_lifo(q, m) == << m >> \o q

\* the event loop runs one scheduled callback: out_q.put_nowait(msg)
put_nowait(q, m) == Append(q, m)

LoopRunCallback ==
    /\ wsState = "attached"
    /\ calls # <<>>
    /\ out_q' = put_nowait(out_q, Head(calls))
    /\ calls' = Tail(calls)
    /\ UNCHANGED << state, sysVars, readerVars, wire, pubLog, sentLog,
                    histVars >>

\* sender, lines 197-200: msg = await out_q.get(); await ws.send(msg)
queue_get(q) == Head(q)

sender ==
    /\ wsState = "attached"
    /\ out_q # <<>>
    /\ LET msg == queue_get(out_q)
           c   == Cancel(pubLog, Append(sentLog, msg))
       IN  /\ out_q' = Tail(out_q)
           /\ wire' = << msg >>
           /\ pubLog' = c[1]
           /\ sentLog' = c[2]
    /\ UNCHANGED << state, sysVars, readerVars, calls, histVars >>

(* ----------------------- process and connection ----------------------- *)
\* main, lines 278-287: the next stdin line is an init payload; asyncio.run
\* starts a new loop and wsClient creates a new out_q (line 207)
StdinInit ==
    /\ wsState = "stdin"
    /\ conn < env.maxConn
    /\ conn' = conn + 1
    /\ wsState' = "connecting"
    /\ calls' = <<>>
    /\ out_q' = <<>>
    /\ wire' = <<>>
    /\ pubLog' = <<>>
    /\ sentLog' = <<>>
    /\ UNCHANGED << state, stop_event, serial_thread, nthreads, env,
                    readerVars, histVars >>

\* line 228-229: websockets.connect succeeded, the sender task is created
WsConnected ==
    /\ wsState = "connecting"
    /\ wsState' = "attached"
    /\ UNCHANGED << state, stop_event, serial_thread, nthreads, conn, env,
                    readerVars, bridgeVars, histVars >>

\* lines 194, 230-231: the connection closes, receiver returns, the sender
\* task is cancelled; what was still queued is never written
WsEnded ==
    /\ wsState = "attached"
    /\ wsState' = "ended"
    /\ calls' = <<>>
    /\ out_q' = <<>>
    /\ wire' = <<>>
    /\ pubLog' = <<>>
    /\ sentLog' = <<>>
    /\ UNCHANGED << state, stop_event, serial_thread, nthreads, conn, env,
                    readerVars, histVars >>

\* asyncio.run returns: the loop is closed; main waits for the next line
LoopClosed ==
    /\ wsState = "ended"
    /\ wsState' = "stdin"
    /\ UNCHANGED << state, stop_event, serial_thread, nthreads, conn, env,
                    readerVars, bridgeVars, histVars >>

\* An exception that leaves main (only json.JSONDecodeError is caught, line
\* 288) ends the process; the reader thread is a daemon and dies with it.
ProcessExit ==
    /\ wsState' = "exited"
    /\ pc' = [t \in Threads |-> IF is_alive(t) THEN "killed" ELSE pc[t]]
    /\ parsed' = [t \in Threads |-> <<>>]
    /\ exc' = [t \in Threads |-> None]
    /\ calls' = <<>>
    /\ out_q' = <<>>
    /\ wire' = <<>>
    /\ pubLog' = <<>>
    /\ sentLog' = <<>>
    /\ linesRead' = <<>>
    /\ updLog' = <<>>
    /\ UNCHANGED << state, stop_event, serial_thread, nthreads, conn, env, bfn,
                    lastPub, fails >>

\* line 228: websockets.connect raises (nothing listens on the port)
WsConnectFailed ==
    /\ wsState = "connecting"
    /\ ProcessExit
    /\ UNCHANGED lastStart

(* ------------------------- command dispatcher ------------------------- *)
\* The data of a command message: absent/null, a JSON object with optional
\* "port" and "baudrate" members, or a JSON value that is not an object.
NoData == [kind |-> "none", port |-> <<>>, baudrate |-> <<>>]
NotAnObject == [kind |-> "other", port |-> <<>>, baudrate |-> <<>>]
Object(p, b) == [kind |-> "object", port |-> p, baudrate |-> b]
Payloads ==
    { NoData, NotAnObject, Object(<<>>, <<>>), Object(<<"">>, <<>>),
      Object(<<"COM1">>, <<>>), Object(<<>>, <<9600>>),
      Object(<<"COM1">>, <<9600>>) }

\* data.get("port") / data.get("baudrate") is truthy
TruthyStr(member) == member # <<>> /\ member[1] # ""
TruthyInt(member) == member # <<>> /\ member[1] # 0

\* a variant of line 170 without the is_alive test
ThreadRunning_unchecked == FALSE

\* ensure_thread_running, line 170: _serial_thread and _serial_thread.is_alive()
ThreadRunning == serial_thread # 0 /\ is_alive(serial_thread)

\* handle_command "start", lines 235-242, with ensure_thread_running, 168-174
CmdStart(data) ==
    /\ wsState = "attached"
    /\ state' = IF data.kind = "object"
                THEN [state EXCEPT
                        !.port = IF TruthyStr(data.port) THEN data.port[1] ELSE @,
                        !.baudrate = IF TruthyInt(data.baudrate)
                                     THEN data.baudrate[1] ELSE @]
                ELSE state
    /\ IF ThreadRunning
       THEN /\ lastStart' = "suppressed"
            /\ UNCHANGED << stop_event, serial_thread, nthreads, pc, bfn >>
       ELSE /\ nthreads < env.maxThreads
            /\ stop_event' = FALSE
            /\ nthreads' = nthreads + 1
            /\ serial_thread' = nthreads + 1
            /\ pc' = [pc EXCEPT ![nthreads + 1] = "L131"]
            /\ bfn' = [bfn EXCEPT ![nthreads + 1] = conn]
            /\ lastStart' = "spawned"
    /\ UNCHANGED << parsed, exc, conn, wsState, env, bridgeVars, lastPub,
                    fails, streamVars >>

\* a variant of stop that marks the state stopped itself
CmdStop_marks_stopped ==
    /\ wsState = "attached"
    /\ stop_event' = TRUE
    /\ lastStart' = "none"
    /\ state' = [state EXCEPT !.status = "stopped"]
    /\ UNCHANGED << serial_thread, nthreads, conn, wsState, env, readerVars,
                    bridgeVars, lastPub, fails, streamVars >>

\* handle_command "stop", lines 244-246
CmdStop ==
    /\ wsState = "attached"
    /\ stop_event' = TRUE
    /\ lastStart' = "none"
    /\ UNCHANGED << state, serial_thread, nthreads, conn, wsState, env,
                    readerVars, bridgeVars, lastPub, fails, streamVars >>

\* a variant of configure that records the validation error in last_error
\* before raising it
CmdConfigure_records_error(data) ==
    /\ wsState = "attached"
    /\ data.kind # "object"
    /\ wsState' = "raising"
    /\ state' = [state EXCEPT !.last_error = "configure payload must be an object"]
    /\ calls' = <<>>
    /\ out_q' = <<>>
    /\ wire' = <<>>
    /\ pubLog' = <<>>
    /\ sentLog' = <<>>
    /\ UNCHANGED << stop_event, serial_thread, nthreads, conn, env, readerVars,
                    histVars >>

\* handle_command "configure", lines 248-254.  The ValueError of line 250 is
\* raised before anything is written; handle_message (lines 262-274) and
\* receiver do not catch it, so it leaves the "async with" of line 228: the
\* connection is closed and what was queued is never written.
CmdConfigure(data) ==
    /\ wsState = "attached"
    /\ IF data.kind # "object"
       THEN /\ wsState' = "raising"
            /\ calls' = <<>>
            /\ out_q' = <<>>
            /\ wire' = <<>>
            /\ pubLog' = <<>>
            /\ sentLog' = <<>>
            /\ UNCHANGED << state, stop_event, serial_thread, nthreads, conn,
                            env, readerVars, histVars >>
       ELSE /\ state' = [state EXCEPT
                    !.port = IF TruthyStr(data.port) THEN data.port[1] ELSE @,
                    !.baudrate = IF TruthyInt(data.baudrate)
                                 THEN data.baudrate[1] ELSE @]
            /\ UNCHANGED << sysVars, readerVars, bridgeVars, histVars >>

\* The ValueError leaves wsClient and asyncio.run; main catches only
\* json.JSONDecodeError (line 288), so the process ends.
MainRaises ==
    /\ wsState = "raising"
    /\ ProcessExit
    /\ UNCHANGED lastStart

\* handle_command "health" (lines 256-257) and any other event name (line
\* 259): the response is computed from _state and nothing is changed
CmdHealth ==
    /\ wsState = "attached"
    /\ UNCHANGED vars

(* ---------------------------- reader loop ----------------------------- *)

goto(t, label) == pc' = [pc EXCEPT ![t] = label]

\* broadcast_fn(event, data), lines 209-219, called by thread t at a line
\* inside the try block (inTry) or outside it.  call_soon_threadsafe raises
\* RuntimeError when the loop it was bound to is closed; inside the try block
\* "except Exception" (line 158) catches that, elsewhere it ends the thread.
broadcast_fn(t, event, data, kind, next, inTry) ==
    /\ lastPub' = kind
    /\ IF LoopOpen(bfn[t])
       THEN /\ call_soon_threadsafe(Msg(event, data))
            /\ goto(t, next)
            /\ exc' = exc
       ELSE /\ UNCHANGED bridgeVars
            /\ goto(t, IF inTry THEN "L159" ELSE "crashed")
            /\ exc' = [exc EXCEPT ![t] = IF inTry THEN LoopClosedError ELSE None]

\* lines 131-132: while not _stop_event.is_set(): if not _state.port:
L131(t) ==
    /\ pc[t] = "L131"
    /\ goto(t, IF stop_event THEN "L165"
               ELSE IF state.port = "" THEN "L133" ELSE "L140")
    /\ linesRead' = <<>>
    /\ updLog' = <<>>
    /\ UNCHANGED << state, sysVars, bfn, parsed, exc, bridgeVars, lastStart,
                    lastPub, fails >>

L133(t) ==
    /\ pc[t] = "L133"
    /\ state' = [state EXCEPT !.status = "error"]
    /\ goto(t, "L134")
    /\ UNCHANGED << sysVars, bfn, parsed, exc, bridgeVars, lastStart, lastPub,
                    fails, streamVars >>

L134(t) ==
    /\ pc[t] = "L134"
    /\ state' = [state EXCEPT !.last_error = NoPortError]
    /\ goto(t, "L135")
    /\ UNCHANGED << sysVars, bfn, parsed, exc, bridgeVars, lastStart, lastPub,
                    fails, streamVars >>

L135(t) ==
    /\ pc[t] = "L135"
    /\ broadcast_fn(t, "serial:status", to_health(state), state.status,
                    "L136", FALSE)
    /\ UNCHANGED << state, sysVars, bfn, parsed, lastStart, fails, streamVars >>

\* time.sleep(1.0); continue
L136(t) ==
    /\ pc[t] = "L136"
    /\ goto(t, "L131")
    /\ UNCHANGED << state, sysVars, bfn, parsed, exc, bridgeVars, lastStart,
                    lastPub, fails, streamVars >>

\* a variant of the reader without line 140: it goes straight to the open
L140_missing(t) ==
    /\ pc[t] = "L140"
    /\ goto(t, "L141")
    /\ UNCHANGED << state, sysVars, bfn, parsed, exc, bridgeVars, lastStart,
                    lastPub, fails, streamVars >>

L140(t) ==
    /\ pc[t] = "L140"
    /\ state' = [state EXCEPT !.status = "connecting"]
    /\ goto(t, "L141")
    /\ UNCHANGED << sysVars, bfn, parsed, exc, bridgeVars, lastStart, lastPub,
                    fails, streamVars >>

L141(t) ==
    /\ pc[t] = "L141"
    /\ broadcast_fn(t, "serial:status", to_health(state), state.status,
                    "L142", TRUE)
    /\ UNCHANGED << state, sysVars, bfn, parsed, lastStart, fails, streamVars >>

\* line 142: open_serial(_state.port, _state.baudrate, timeout=1) returns
L142_opened(t) ==
    /\ pc[t] = "L142"
    /\ goto(t, "L143")
    /\ fails' = 0
    /\ linesRead' = <<>>
    /\ updLog' = <<>>
    /\ UNCHANGED << state, sysVars, bfn, parsed, exc, bridgeVars, lastStart,
                    lastPub >>

\* line 142: open_serial raises (no such device, connection refused, ...)
L142_failed(t) ==
    /\ pc[t] = "L142"
    /\ fails < env.maxFails
    /\ fails' = fails + 1
    /\ goto(t, "L159")
    /\ exc' = [exc EXCEPT ![t] = OpenError]
    /\ UNCHANGED << state, sysVars, bfn, parsed, bridgeVars, lastStart, lastPub,
                    streamVars >>

L143(t) ==
    /\ pc[t] = "L143"
    /\ state' = [state EXCEPT !.status = "connected"]
    /\ goto(t, "L144")
    /\ UNCHANGED << sysVars, bfn, parsed, exc, bridgeVars, lastStart, lastPub,
                    fails, streamVars >>

\* a variant of the reader without line 144: the last error is kept
L144_skipped(t) ==
    /\ pc[t] = "L144"
    /\ goto(t, "L145")
    /\ UNCHANGED << state, sysVars, bfn, parsed, exc, bridgeVars, lastStart,
                    lastPub, fails, streamVars >>

L144(t) ==
    /\ pc[t] = "L144"
    /\ state' = [state EXCEPT !.last_error = None]
    /\ goto(t, "L145")
    /\ UNCHANGED << sysVars, bfn, parsed, exc, bridgeVars, lastStart, lastPub,
                    fails, streamVars >>

L145(t) ==
    /\ pc[t] = "L145"
    /\ state' = [state EXCEPT !.backoff_seconds = Floor]
    /\ goto(t, "L146")
    /\ UNCHANGED << sysVars, bfn, parsed, exc, bridgeVars, lastStart, lastPub,
                    fails, streamVars >>

L146(t) ==
    /\ pc[t] = "L146"
    /\ broadcast_fn(t, "serial:status", to_health(state), state.status,
                    "L147", TRUE)
    /\ UNCHANGED << state, sysVars, bfn, parsed, lastStart, fails, streamVars >>


\* line 147: while not _stop_event.is_set(); leaving the loop leaves the
\* with block (the port is closed) and returns to line 131
L147(t) ==
    /\ pc[t] = "L147"
    /\ goto(t, IF stop_event THEN "L131" ELSE "L148")
    /\ UNCHANGED << state, sysVars, bfn, parsed, exc, bridgeVars, lastStart,
                    lastPub, fails, streamVars >>

\* lines 148-150: ser.readline() times out and returns b""
L148_timeout(t) ==
    /\ pc[t] = "L148"
    /\ goto(t, "L147")
    /\ UNCHANGED << state, sysVars, bfn, parsed, exc, bridgeVars, lastStart,
                    lastPub, fails, streamVars >>

\* lines 148-154: ser.readline() returns a line; parse it and stamp it
Stamp(p) == IF p = <<>> THEN <<>>
            ELSE << [values |-> p[1].values, timestamp |-> Timestamp] >>

L148_line(t, line) ==
    /\ pc[t] = "L148"
    /\ Len(linesRead) < env.maxLines
    /\ linesRead' = Append(linesRead, line)
    /\ parsed' = [parsed EXCEPT ![t] = Stamp(parse_pm100_line(line))]
    /\ goto(t, IF parse_pm100_line(line) = <<>> THEN "L147" ELSE "L155")
    /\ UNCHANGED << state, sysVars, bfn, exc, bridgeVars, lastStart, lastPub,
                    fails, updLog >>

\* line 148: ser.readline() raises (the device went away)
L148_failed(t) ==
    /\ pc[t] = "L148"
    /\ fails < env.maxFails
    /\ fails' = fails + 1
    /\ goto(t, "L159")
    /\ exc' = [exc EXCEPT ![t] = ReadError]
    /\ UNCHANGED << state, sysVars, bfn, parsed, bridgeVars, lastStart, lastPub,
                    streamVars >>

L155(t) ==
    /\ pc[t] = "L155"
    /\ state' = [state EXCEPT !.last_value = parsed[t]]
    /\ goto(t, "L156")
    /\ UNCHANGED << sysVars, bfn, parsed, exc, bridgeVars, lastStart, lastPub,
                    fails, streamVars >>

L156(t) ==
    /\ pc[t] = "L156"
    /\ state' = [state EXCEPT !.last_seen = << parsed[t][1].timestamp >>]
    /\ goto(t, "L157")
    /\ UNCHANGED << sysVars, bfn, parsed, exc, bridgeVars, lastStart, lastPub,
                    fails, streamVars >>

\* a reader that records the update without publishing it
L157_silent(t) ==
    /\ pc[t] = "L157"
    /\ goto(t, "L147")
    /\ parsed' = [parsed EXCEPT ![t] = <<>>]
    /\ UNCHANGED << state, sysVars, bfn, exc, bridgeVars, lastStart, lastPub,
                    fails, streamVars >>

\* line 157; parsed is not read again before line 151 overwrites it
L157(t) ==
    /\ pc[t] = "L157"
    /\ broadcast_fn(t, "serial:update", parsed[t][1], "update", "L147", TRUE)
    /\ updLog' = Append(updLog, parsed[t][1].values)
    /\ linesRead' = linesRead
    /\ parsed' = [parsed EXCEPT ![t] = <<>>]
    /\ UNCHANGED << state, sysVars, bfn, lastStart, fails >>

L159(t) ==
    /\ pc[t] = "L159"
    /\ state' = [state EXCEPT !.status = "error"]
    /\ goto(t, "L160")
    /\ linesRead' = <<>>
    /\ updLog' = <<>>
    /\ UNCHANGED << sysVars, bfn, parsed, exc, bridgeVars, lastStart, lastPub,
                    fails >>

\* line 160: str(exc); exc is not read again
L160(t) ==
    /\ pc[t] = "L160"
    /\ state' = [state EXCEPT !.last_error = exc[t]]
    /\ exc' = [exc EXCEPT ![t] = None]
    /\ parsed' = [parsed EXCEPT ![t] = <<>>]
    /\ goto(t, "L161")
    /\ UNCHANGED << sysVars, bfn, bridgeVars, lastStart, lastPub, fails,
                    streamVars >>

L161(t) ==
    /\ pc[t] = "L161"
    /\ broadcast_fn(t, "serial:status", to_health(state), state.status,
                    "L162", FALSE)
    /\ UNCHANGED << state, sysVars, bfn, parsed, lastStart, fails, streamVars >>

\* line 162: time.sleep(_state.backoff_seconds) ends
L162(t) ==
    /\ pc[t] = "L162"
    /\ goto(t, "L163")
    /\ UNCHANGED << state, sysVars, bfn, parsed, exc, bridgeVars, lastStart,
                    lastPub, fails, streamVars >>

\* a variant of line 163 without the min(..., 30.0)
NextBackoff_uncapped(b) == (b * 3) \div 2

\* min(_state.backoff_seconds * 1.5, 30.0)
NextBackoff(b) == Min((b * 3) \div 2, Ceiling)

L163(t) ==
    /\ pc[t] = "L163"
    /\ state' = [state EXCEPT !.backoff_seconds = NextBackoff(@)]
    /\ goto(t, "L131")
    /\ UNCHANGED << sysVars, bfn, parsed, exc, bridgeVars, lastStart, lastPub,
                    fails, streamVars >>

L165(t) ==
    /\ pc[t] = "L165"
    /\ state' = [state EXCEPT !.status = "stopped"]
    /\ goto(t, "L166")
    /\ UNCHANGED << sysVars, bfn, parsed, exc, bridgeVars, lastStart, lastPub,
                    fails, streamVars >>

\* line 166, then _reader_loop returns and the thread ends
L166(t) ==
    /\ pc[t] = "L166"
    /\ broadcast_fn(t, "serial:status", to_health(state), state.status,
                    "done", FALSE)
    /\ UNCHANGED << state, sysVars, bfn, parsed, lastStart, fails, streamVars >>

(* --------------------------- specification ---------------------------- *)
Next ==
    \/ StdinInit
    \/ WsConnected
    \/ WsConnectFailed
    \/ WsEnded
    \/ LoopClosed
    \/ LoopRunCallback
    \/ sender
    \/ \E data \in Payloads : CmdStart(data)
    \/ CmdStop
    \/ \E data \in Payloads : CmdConfigure(data)
    \/ MainRaises
    \/ CmdHealth
    \/ \E t \in Threads : L131(t)
    \/ \E t \in Threads : L133(t)
    \/ \E t \in Threads : L134(t)
    \/ \E t \in Threads : L135(t)
    \/ \E t \in Threads : L136(t)
    \/ \E t \in Threads : L140(t)
    \/ \E t \in Threads : L141(t)
    \/ \E t \in Threads : L142_opened(t)
    \/ \E t \in Threads : L142_failed(t)
    \/ \E t \in Threads : L143(t)
    \/ \E t \in Threads : L144(t)
    \/ \E t \in Threads : L145(t)
    \/ \E t \in Threads : L146(t)
    \/ \E t \in Threads : L147(t)
    \/ \E t \in Threads : L148_timeout(t)
    \/ \E t \in Threads, line \in Lines : L148_line(t, line)
    \/ \E t \in Threads : L148_failed(t)
    \/ \E t \in Threads : L155(t)
    \/ \E t \in Threads : L156(t)
    \/ \E t \in Threads : L157(t)
    \/ \E t \in Threads : L159(t)
    \/ \E t \in Threads : L160(t)
    \/ \E t \in Threads : L161(t)
    \/ \E t \in Threads : L162(t)
    \/ \E t \in Threads : L163(t)
    \/ \E t \in Threads : L165(t)
    \/ \E t \in Threads : L166(t)

Spec == Init /\ [][Next]_vars

(* ------------------- the decoder inside the reader -------------------- *)
\* A reader that has opened the transport, published the connected status
\* (which the sender has written) and is about to call ser.readline().
ReaderAtReadline ==
    /\ state = [ SerialState("COM1") EXCEPT !.status = "connected" ]
    /\ stop_event = FALSE
    /\ serial_thread = 1
    /\ nthreads = 1
    /\ pc = [t \in Threads |-> IF t = 1 THEN "L148" ELSE "unborn"]
    /\ bfn = [t \in Threads |-> IF t = 1 THEN 1 ELSE 0]
    /\ parsed = [t \in Threads |-> <<>>]
    /\ exc = [t \in Threads |-> None]
    /\ conn = 1
    /\ wsState = "attached"
    /\ calls = <<>>
    /\ out_q = <<>>
    /\ wire = << Msg("serial:status", to_health(state)) >>
    /\ pubLog = <<>>
    /\ sentLog = <<>>
    /\ lastStart = "spawned"
    /\ lastPub = "connected"
    /\ fails = 0
    /\ linesRead = <<>>
    /\ updLog = <<>>

\* one line arrives and is decoded; a decoded line is stored and published
DecoderInit == ReaderAtReadline /\ env = Scenario(1, 1, 1, 0, 1)

DecoderNext ==
    \/ \E t \in { u \in Threads : pc[u] = "L148" }, line \in DecoderLines :
          L148_line(t, line)
    \/ \E t \in Threads : L155(t)
    \/ \E t \in Threads : L156(t)
    \/ \E t \in Threads : L157(t)

DecoderSpec == DecoderInit /\ [][DecoderNext]_vars


(* ------------------------------- claims ------------------------------- *)
NumActive == Cardinality({ t \in Threads : is_alive(t) })

\* C1: in every reachable state at most one Reader Loop is active; a start
\* issued while one is active creates no second reader.
C1_AtMostOneReader == NumActive <= 1

\* a start was issued while a reader was active (after a stop that the reader
\* has not yet honoured), and there is still exactly one reader
C1_Witness == lastStart = "suppressed" /\ stop_event /\ NumActive = 1

\* C2: after a start command has returned, and until a stop command is
\* issued, a Reader Loop is active (while the process runs).
C2_StartEnsuresRunning ==
    (lastStart # "none" /\ wsState # "exited") => ReaderActive

\* C3 (its safety part): a Reader Loop that was active when stop was issued
\* ends only after it has set status=stopped and published the stopped
\* status as its last event.
C3_StoppedReaderEndsStopped ==
    [][ \A t \in Threads :
          (is_alive(t) /\ stop_event /\ ~is_alive(t)' /\ wsState' # "exited")
            => (state'.status = "stopped" /\ lastPub' = "stopped") ]_vars

\* C4: whenever a health command can be dispatched, the snapshot it returns
\* has lastError null if its status is connected.
C4_ConnectedImpliesNoError ==
    wsState = "attached" =>
        (to_health(state).status = "connected"
            => to_health(state).lastError = None)

\* C5: status becomes connected only from connecting: a reader about to run
\* the assignment of line 143 finds status=connecting, and no step changes
\* status to connected from another value.
C5_ConnectedOnlyAfterConnecting ==
    /\ [](\A t \in Threads : pc[t] = "L143" => state.status = "connecting")
    /\ [][ (state'.status = "connected" /\ state.status # "connected")
             => state.status = "connecting" ]_vars

\* a reader restarted after a stop has connected again
C5_Witness ==
    nthreads = 2 /\ state.status = "connected" /\ is_alive(2)
        /\ state.last_error = None


\* C6: in every reachable state backoff lies within [1.0, 30.0] seconds.
C6_BackoffInRange ==
    Floor <= state.backoff_seconds /\ state.backoff_seconds <= Ceiling

\* the reader sleeps the ceiling after enough consecutive failures
C6_Witness ==
    \E t \in Threads : pc[t] = "L162" /\ state.backoff_seconds = Ceiling
                         /\ fails = MaxFails

\* min(1.5^(k-1), 30.0) in 1/256 s
SleepOfFailure(k) ==
    LET n == (3 ^ (k - 1)) * Floor
        d == 2 ^ (k - 1)
    IN  IF n >= Ceiling * d THEN Ceiling ELSE n \div d

\* C7: the k-th consecutive transport failure sleeps min(1.5^(k-1), 30.0) and
\* then sets backoff to min(backoff*1.5, 30.0); backoff decreases only by the
\* reset of a successful open, which sets it to 1.0 before the connected
\* status is published.
C7_SleepSequence ==
    \A t \in Threads :
        pc[t] = "L162" => state.backoff_seconds = SleepOfFailure(fails)

C7_GrowthStep ==
    [][ \A t \in Threads :
          (pc[t] = "L163" /\ pc'[t] # "L163" /\ is_alive(t)')
            => state'.backoff_seconds =
                 (IF 3 * state.backoff_seconds >= 2 * Ceiling THEN Ceiling
                  ELSE (3 * state.backoff_seconds) \div 2) ]_vars

C7_DecreaseOnlyByReset ==
    [][ state'.backoff_seconds < state.backoff_seconds
          => (\E t \in Threads : pc[t] = "L145" /\ pc'[t] = "L146"
                /\ state'.backoff_seconds = Floor) ]_vars

C7_ResetBeforeConnectedPublished ==
    \A t \in Threads :
        pc[t] = "L146" => (state.backoff_seconds = Floor
                             /\ state.status = "connected")

C7_BackoffSchedule ==
    /\ []C7_SleepSequence
    /\ C7_GrowthStep
    /\ C7_DecreaseOnlyByReset
    /\ []C7_ResetBeforeConnectedPublished

\* C8: publishing an event never raises in the calling reader, whatever the
\* state of the outbound channel: no reader is ended by a publish that raised
\* and no publish raised into the reader's error handler.
C8_PublishNeverRaises ==
    \A t \in Threads : pc[t] # "crashed" /\ exc[t] # LoopClosedError
                          /\ state.last_error # LoopClosedError

IsPrefix(s, t) == Len(s) <= Len(t) /\ SubSeq(t, 1, Len(s)) = s

\* C9: the sequence of messages the sender has written to the connection is
\* a prefix of the sequence published on that connection, and the messages
\* still in flight are the rest of it, in publication order.
C9_WrittenIsPrefixOfPublished ==
    /\ IsPrefix(sentLog, pubLog)
    /\ sentLog = <<>> => pubLog = out_q \o calls

\* an update has been written while a later message is queued behind it
C9_Witness ==
    /\ wsState = "attached"
    /\ wire # <<>>
    /\ wire[1].data.event = "serial:update"
    /\ out_q # <<>>
    /\ pubLog = out_q \o calls

\* the updates of section 4's example, per line
ExampleUpdate(line) ==
    CASE line = Line_0068_00AF -> << (0 :> 104 @@ 1 :> 175) >>
      [] line = Line_0001_0002 -> << (0 :> 1 @@ 1 :> 2) >>
      [] OTHER -> <<>>

RECURSIVE ExpectedUpdates(_)
ExpectedUpdates(lines) ==
    IF lines = <<>> THEN <<>>
    ELSE ExampleUpdate(Head(lines)) \o ExpectedUpdates(Tail(lines))

\* the updates published so far in this session, with the one a reader is
\* about to publish for the line it has just decoded
UpdatesWithPending ==
    IF \E t \in Threads : pc[t] \in {"L155", "L156", "L157"}
    THEN LET t == CHOOSE u \in Threads : pc[u] \in {"L155", "L156", "L157"}
         IN  Append(updLog, parsed[t][1].values)
    ELSE updLog

C10_UpdatesMatchLines == UpdatesWithPending = ExpectedUpdates(linesRead)

C10_UndecodableLineIsSilent ==
    [][ (Len(linesRead') = Len(linesRead) + 1
           /\ ExampleUpdate(linesRead'[Len(linesRead')]) = <<>>)
          => UNCHANGED << state, bridgeVars, lastPub, updLog >> ]_vars

\* C10: while connected, the reader publishes exactly one serial:update per
\* decodable line, in the order the lines arrived and with the decoded
\* words, and an undecodable line publishes nothing and changes no field.
C10_OneUpdatePerDecodableLine ==
    /\ []C10_UpdatesMatchLines
    /\ C10_UndecodableLineIsSilent

\* the example stream has been read and its two updates published
C10_Witness ==
    /\ linesRead = << Line_0068_00AF, Line_garbage, Line_0001_0002 >>
    /\ updLog = << (0 :> 104 @@ 1 :> 175), (0 :> 1 @@ 1 :> 2) >>
    /\ state.last_value # <<>>
    /\ state.last_value[1].values = (0 :> 1 @@ 1 :> 2)

IsObject(data) == data.kind = "object"

C12_ValidationFailureIsLocal ==
    [][ wsState = "raising" => wsState' \in {"raising", "attached"} ]_vars

\* a serial:status event has just been published
StatusPublished ==
    /\ Len(pubLog') = Len(pubLog) + 1
    /\ pubLog'[Len(pubLog')].data.event = "serial:status"

\* C13: a stop issued while no reader is active starts no reader, changes no
\* ConnectionState field, and (re-)publishes the status as a serial:status
\* event.
C13_StopWithoutReaderRepublishes ==
    [][ (CmdStop /\ ~ReaderActive)
          => /\ UNCHANGED << state, serial_thread, nthreads, pc >>
             /\ StatusPublished ]_vars

NoPortBranch == {"L133", "L134", "L135", "L136"}

\* each iteration with an empty target reports the configuration error
C18_IterationReportsNoPort ==
    \A t \in Threads :
        /\ pc[t] = "L135" => (state.status = "error"
                                /\ state.last_error = NoPortError)
        /\ pc[t] = "L136" => lastPub = "error"

\* ... attempts no open and leaves the backoff alone
C18_NoOpenNoBackoffChange ==
    [][ \A t \in Threads :
          pc[t] \in NoPortBranch
            => /\ pc'[t] \notin {"L140", "L141", "L142", "L143"}
               /\ state'.backoff_seconds = state.backoff_seconds ]_vars

\* ... and stays able to recover: while the process runs the reader is not
\* ended in that branch; back at line 131 with a target set and no stop it
\* goes on to set status=connecting, publishes it and attempts the open
C18_StaysRecoverable ==
    [][ \A t \in Threads :
          /\ (pc[t] \in NoPortBranch /\ wsState' # "exited") => is_alive(t)'
          /\ (pc[t] = "L131" /\ pc'[t] # "L131" /\ wsState' # "exited"
                /\ ~stop_event /\ state.port # "") => pc'[t] = "L140"
          /\ (pc[t] = "L140" /\ pc'[t] # "L140" /\ wsState' # "exited")
                => (pc'[t] = "L141" /\ state'.status = "connecting")
          /\ (pc[t] = "L141" /\ pc'[t] # "L141" /\ wsState' # "exited"
                /\ state.last_error = NoPortError) => pc'[t] = "L142" ]_vars

\* C18: a reader running with an empty target never attempts an open and
\* never changes the backoff; each iteration sets status=error and
\* lastError='No serial port configured' and publishes a status event; and
\* once a target is set and no stop is issued it goes on to status=connecting
\* and an open attempt.
C18_EmptyTargetIsRecoverable ==
    /\ []C18_IterationReportsNoPort
    /\ C18_NoOpenNoBackoffChange
    /\ C18_StaysRecoverable

\* a step of a reader thread
ReaderStep == \E t \in Threads : is_alive(t) /\ pc'[t] # pc[t]

\* C19 as stated: every change of a ConnectionState field is made by the
\* reader thread; commands only read the record.
C19_SingleWriter == [][ state' # state => ReaderStep ]_vars

\* C19 as amended: status, lastError, lastSample, lastSeenAt and backoff are
\* changed only by steps of the reader thread; target and rate are changed
\* only by commands (start, configure), never by the reader.
C19_ReaderOwnsStatusFields ==
    [][ /\ ( \/ state'.status # state.status
             \/ state'.last_error # state.last_error
             \/ state'.last_value # state.last_value
             \/ state'.last_seen # state.last_seen
             \/ state'.backoff_seconds # state.backoff_seconds ) => ReaderStep
        /\ ( \/ state'.port # state.port
             \/ state'.baudrate # state.baudrate )
              => (~ReaderStep /\ wsState = "attached") ]_vars

\* a command has set the target while the reader was reporting that none
\* was configured
C19_Witness ==
    /\ state.port = "COM1"
    /\ state.baudrate = 9600
    /\ state.status = "error"
    /\ state.last_error = NoPortError
    /\ ReaderActive

Range(seq) == { seq[i] : i \in 1..Len(seq) }

ConsistentSnapshot(h) ==
    /\ h.status = "connected" => (h.lastError = None /\ h.backoffSeconds = 1000)
    /\ h.status = "error" => h.lastError # None

\* the snapshot a reader at a publishing line passes to publish
C20_SnapshotFollowsUpdate ==
    \A t \in Threads :
        /\ pc[t] \in {"L135", "L161"} => to_health(state).status = "error"
        /\ pc[t] = "L141" => to_health(state).status = "connecting"
        /\ pc[t] = "L146" => to_health(state).status = "connected"
        /\ pc[t] = "L166" => to_health(state).status = "stopped"
        /\ pc[t] \in {"L135", "L141", "L146", "L161", "L166"}
              => ConsistentSnapshot(to_health(state))

\* C20: every serial:status event a reader publishes carries the snapshot
\* of the state as just updated, and the snapshot is consistent: connected
\* comes with lastError null and backoff 1.0, error with a lastError.
C20_StatusEventsConsistent ==
    /\ C20_SnapshotFollowsUpdate
    /\ \A m \in Range(calls) \cup Range(out_q) \cup Range(wire)
                 \cup Range(pubLog) :
          m.data.event = "serial:status" => ConsistentSnapshot(m.data.data)

\* a connected snapshot, published after the configuration error was
\* cleared, has been written to the connection
C20_Witness ==
    /\ wire # <<>>
    /\ wire[1].data.event = "serial:status"
    /\ wire[1].data.data.status = "connected"
    /\ wire[1].data.data.lastError = None
    /\ wire[1].data.data.backoffSeconds = 1000
    /\ state.port = "COM1"

(* ------------------------- claims on the decoder ---------------------- *)
\* the line the reader has read, and what it decoded from it: <<>> when the
\* line was dropped, << values >> when an update was (or is being) published
LineRead == linesRead[1]
Decoded == UpdatesWithPending

AllSingle(line) == \A i \in 1..Len(line) : Len(line[i]) = 1
IsHexString(token) == \A i \in 1..Len(token) : token[i] \in HexChars
NumWords(line) == IF AllSingle(line) THEN Len(line) \div 4 ELSE Len(line)

\* C14: whenever a line decodes, the values map has the keys 0..n-1 for the
\* n words of the line and every word lies in [0, 65535]; a line of n >= 1
\* tokens of 4 hex characters always decodes.
C14_WordsIndexedAndInRange ==
    linesRead # <<>> =>
        /\ Decoded # <<>> =>
              /\ DOMAIN Decoded[1] = 0..(NumWords(LineRead) - 1)
              /\ \A i \in DOMAIN Decoded[1] : Decoded[1][i] \in 0..65535
        /\ (LineRead # <<>> /\ \A i \in 1..Len(LineRead) :
                Len(LineRead[i]) = 4 /\ IsHexString(LineRead[i]))
              => Decoded # <<>>

\* the value of a hex digit and of the words of a string of hex digits,
\* written out positionally
RefDigit(c) ==
    CASE c = "0" -> 0 [] c = "6" -> 6 [] c = "8" -> 8

RECURSIVE Flatten(_)
Flatten(line) ==
    IF line = <<>> THEN <<>> ELSE Head(line) \o Flatten(Tail(line))

RefWords(cs) ==
    [ i \in 0..((Len(cs) \div 4) - 1) |->
        4096 * RefDigit(cs[4*i + 1]) + 256 * RefDigit(cs[4*i + 2])
          + 16 * RefDigit(cs[4*i + 3]) + RefDigit(cs[4*i + 4]) ]

\* C15: a line of single hex digits whose count is a multiple of 4 decodes
\* to the same words as the line of its digits concatenated four at a time
\* ('0 0 6 8' and '0068' both give the one word 104); a count that is not a
\* multiple of 4 makes the line unparseable.
C15_NibbleLinesRegroup ==
    linesRead # <<>> =>
        /\ (LineRead \in NibbleLines /\ Len(LineRead) % 4 = 0)
              => Decoded = << RefWords(Flatten(LineRead)) >>
        /\ LineRead \in WordLines
              => Decoded = << RefWords(Flatten(LineRead)) >>
        /\ (LineRead \in NibbleLines /\ Len(LineRead) % 4 # 0)
              => Decoded = <<>>
        /\ LineRead \in { << <<"0">>, <<"0">>, <<"6">>, <<"8">> >>,
                           << <<"0","0","6","8">> >> }
              => Decoded = << (0 :> 104) >>

\* the eight nibbles '0 0 6 8 0 0 0 6' have been published as two words
C15_Witness ==
    /\ linesRead = << << <<"0">>, <<"0">>, <<"6">>, <<"8">>,
                         <<"0">>, <<"0">>, <<"0">>, <<"6">> >> >>
    /\ updLog = << (0 :> 104 @@ 1 :> 6) >>

Last4(token) == SubSeq(token, Len(token) - 3, Len(token))

\* C16: in a line that is not made of single-character tokens only, a token
\* longer than 4 characters counts as its trailing 4 characters ('A0068' is
\* 0x0068 = 104), and a token shorter than 4 characters, or one whose
\* (trailing) 4 characters are not all hex, makes the line unparseable.
C16_SalvageAndReject ==
    (linesRead # <<>> /\ LineRead # <<>> /\ ~AllSingle(LineRead)) =>
        IF \E i \in 1..Len(LineRead) :
              Len(LineRead[i]) < 4 \/ ~IsHexString(Last4(LineRead[i]))
        THEN Decoded = <<>>
        ELSE /\ Decoded =
                  << [ i \in 0..(Len(LineRead) - 1) |->
                         HexDigitsValue(Last4(LineRead[i + 1])) ] >>
             /\ LineRead = << <<"A","0","0","6","8">> >>
                   => Decoded = << (0 :> 104) >>

\* the sample the reader holds for the line it has read: the one it is about
\* to store and publish, or the one it has stored
SampleRead ==
    IF \E t \in Threads : pc[t] \in {"L155", "L156", "L157"}
    THEN parsed[CHOOSE t \in Threads : pc[t] \in {"L155", "L156", "L157"}]
    ELSE state.last_value

\* the id and the value (numerator, denominator) of the key-value lines
ExpectedSample(line) ==
    CASE line = Line_kv_colon -> [id |-> "t", value |-> << 235, 10 >>]
      [] line = Line_kv_comma -> [id |-> "a", value |-> << 1234, 1 >>]

\* C17: a line '<id>:<value>' or '<id>,<value>' read from the transport is
\* decoded, not dropped, into a sample that carries that id and that value.
C17_KeyValueLineDecoded ==
    (linesRead # <<>> /\ LineRead \in KeyValueLines) =>
        /\ SampleRead # <<>>
        /\ {"id", "value"} \subseteq DOMAIN SampleRead[1]
        /\ SampleRead[1].id = ExpectedSample(LineRead).id
        /\ SampleRead[1].value = ExpectedSample(LineRead).value

====
